---- MODULE Spec2Model ----
(***************************************************************************)
(* Model of the data-quality validator (utils/validate_data.py) and of the *)
(* retrain-flag functions (src/training/update_retrain_flag.py and         *)
(* src/training/load_retrain_flag.py) of the energy_forecast pipeline.     *)
(*                                                                         *)
(* A data frame is a sequence of rows.  A row is a record with one cell    *)
(* per column name; the set of columns the frame really has is kept        *)
(* beside it (cells of an absent column are NaN place-holders that no      *)
(* operation reads).  A timestamp is a calendar day plus a time of day, so *)
(* that normalisation (dropping the time of day) is not the identity.      *)
(***************************************************************************)
EXTENDS Integers, Sequences, FiniteSets, TLC

\* ------------------------------------------------------------------ bounds
MaxRows == 2          \* longest frame handed to the validator
MaxDay == 3           \* calendar days are 0 .. MaxDay

\* ------------------------------------------------------------------ cells
NaN == [k |-> "nan"]
Num(v) == [k |-> "num", v |-> v]
Str == [k |-> "str"]
NaT == [k |-> "nat"]
Ts(d, t) == [k |-> "ts", day |-> d, tod |-> t]

Days == 0 .. MaxDay
\* time of day: 0 is midnight, 1 is some later time of the same day
Timestamps == {Ts(d, t) : d \in Days, t \in {0, 1}}

DateCol == "date"
TargetCol == "target"
RegressorCol == "temp"
AllCols == {DateCol, TargetCol, RegressorCol}

Row(d, y, x) == [date |-> d, target |-> y, temp |-> x]

\* ------------------------------------------------------------------ pandas
\* Series.isnull()
IsNull(c) == c.k \in {"nan", "nat"}

\* ordering of two timestamps, NaT excluded
DateLE(a, b) ==
    \/ a.day < b.day
    \/ a.day = b.day /\ a.tod <= b.tod

\* Series.is_monotonic_increasing of the date column: non-strict order, and
\* False as soon as a NaT is present
IsMonotonicIncreasing(df) ==
    /\ \A i \in 1 .. Len(df) : df[i].date.k = "ts"
    /\ \A i \in 1 .. Len(df) - 1 : DateLE(df[i].date, df[i + 1].date)

\* key order of sort_values: NaT goes last (na_position="last")
SortLE(a, b) ==
    IF a.k = "nat" THEN b.k = "nat"
    ELSE IF b.k = "nat" THEN TRUE
    ELSE DateLE(a, b)

RECURSIVE InsertSorted(_, _)
InsertSorted(r, s) ==
    IF s = <<>> THEN <<r>>
    ELSE IF SortLE(s[1].date, r.date) THEN <<s[1]>> \o InsertSorted(r, Tail(s))
    ELSE <<r>> \o s

\* DataFrame.sort_values(date).reset_index(drop=True): ascending, ties keep
\* their input order
RECURSIVE SortValues(_)
SortValues(df) ==
    IF df = <<>> THEN <<>>
    ELSE InsertSorted(df[Len(df)], SortValues(SubSeq(df, 1, Len(df) - 1)))

\* pd.to_datetime(x).dt.normalize() of one cell: midnight of the same day
NormalizeCell(c) == IF c.k = "ts" THEN Ts(c.day, 0) ELSE c

\* the date column replaced by its normalised values
NormalizeDates(df) ==
    [i \in 1 .. Len(df) |-> [df[i] EXCEPT !.date = NormalizeCell(df[i].date)]]

\* variant: a row is compared with itself too
DuplicatedCountSelf(df) ==
    Cardinality({i \in 1 .. Len(df) : \E j \in 1 .. i : df[j] = df[i]})

\* DataFrame.duplicated().sum(): rows equal, in every column, to an earlier row
DuplicatedCount(df) ==
    Cardinality({i \in 1 .. Len(df) : \E j \in 1 .. i - 1 : df[j] = df[i]})

\* DataFrame.dropna(subset=[target])
RECURSIVE DropNaTarget(_)
DropNaTarget(df) ==
    IF df = <<>> THEN <<>>
    ELSE IF IsNull(df[1].target) THEN DropNaTarget(Tail(df))
    ELSE <<df[1]>> \o DropNaTarget(Tail(df))

\* df[col].isnull().sum()
NullCount(df, col) == Cardinality({i \in 1 .. Len(df) : IsNull(df[i][col])})

\* pd.api.types.is_numeric_dtype(df[col]): a column holding a string has dtype
\* object; numbers and NaN make a float column
IsNumericDtype(df, col) == \A i \in 1 .. Len(df) : df[i][col].k # "str"

\* Series.unique() of the date column
ExistingDates(df) == {df[i].date : i \in 1 .. Len(df)}

\* Series.min() and Series.max() of the date column: NaT is skipped, and is the
\* result when nothing else is there
DateMin(df) ==
    IF ExistingDates(df) \ {NaT} = {} THEN NaT
    ELSE CHOOSE m \in ExistingDates(df) \ {NaT} :
            \A n \in ExistingDates(df) \ {NaT} : DateLE(m, n)

DateMax(df) ==
    IF ExistingDates(df) \ {NaT} = {} THEN NaT
    ELSE CHOOSE m \in ExistingDates(df) \ {NaT} :
            \A n \in ExistingDates(df) \ {NaT} : DateLE(n, m)

\* pd.date_range(start, end, freq="D"): start, start + 1 day, ... up to end
DateRange(start, end) ==
    {Ts(d, start.tod) : d \in {e \in start.day .. end.day : DateLE(Ts(e, start.tod), end)}}

\* pd.DatetimeIndex(full_date_range).difference(existing_dates)
MissingDates(df) == DateRange(DateMin(df), DateMax(df)) \ ExistingDates(df)

\* variant: the comparison is turned round, (df[col] > bound).sum()
CountBelowTurned(df, col, bound) ==
    Cardinality({i \in 1 .. Len(df) : df[i][col].k = "num" /\ df[i][col].v > bound})

\* (df[col] < bound).sum(): NaN compares False
CountBelow(df, col, bound) ==
    Cardinality({i \in 1 .. Len(df) : df[i][col].k = "num" /\ df[i][col].v < bound})

\* variant: (df[col] >= bound).sum()
CountAtOrAbove(df, col, bound) ==
    Cardinality({i \in 1 .. Len(df) : df[i][col].k = "num" /\ df[i][col].v >= bound})

\* (df[col] > bound).sum()
CountAbove(df, col, bound) ==
    Cardinality({i \in 1 .. Len(df) : df[i][col].k = "num" /\ df[i][col].v > bound})

\* ------------------------------------------------------------------ state
VARIABLES
    df,                     \* the caller's frame (rows)
    cols,                   \* df.columns
    date_dtype,             \* dtype of the date column: "datetime64" or "object"
    is_training_data,
    regressors_list,
    business_rules,
    self_df,                \* DataValidator.df
    flag,                   \* DataValidator.flag
    pc,                     \* position inside validate_data
    raised,                 \* exception that left validate_data, or "none"
    missing_values_report,
    date_report,
    business_rules_report,
    report                  \* the report validate_data returns

validator_vars ==
    <<df, cols, date_dtype, is_training_data, regressors_list, business_rules,
      self_df, flag, pc, raised, missing_values_report, date_report,
      business_rules_report, report>>

validator_args ==
    <<df, cols, date_dtype, is_training_data, regressors_list, business_rules>>

\* the arguments beside the frame
validator_config ==
    <<cols, date_dtype, is_training_data, regressors_list, business_rules>>

\* ------------------------------------------------------------------ rules
\* business_rules: `given` is the truth value of the dict (None and {} are
\* falsy); an optional key is <<>> when absent and <<bound>> when present
NoKey == <<>>
Key(b) == <<b>>

NoRules ==
    [given |-> FALSE,
     target |-> [allow_negative |-> TRUE, min_value |-> NoKey, max_value |-> NoKey],
     regressors |-> [listed |-> FALSE, min_value |-> NoKey, max_value |-> NoKey]]

Rules(neg, tmin, tmax, listed, rmin, rmax) ==
    [given |-> TRUE,
     target |-> [allow_negative |-> neg, min_value |-> tmin, max_value |-> tmax],
     regressors |-> [listed |-> listed, min_value |-> rmin, max_value |-> rmax]]

\* whether the target rules read the target column
TargetRulesReadColumn(rules) ==
    \/ ~rules.target.allow_negative
    \/ rules.target.min_value # NoKey
    \/ rules.target.max_value # NoKey

\* whether the regressor rules compare the regressor column with a bound
RegressorRulesReadColumn(rules, columns) ==
    /\ rules.regressors.listed
    /\ RegressorCol \in columns
    /\ rules.regressors.min_value # NoKey \/ rules.regressors.max_value # NoKey

\* the violations of one column as a sparse map: only non-zero counts appear
Violations(neg, below, above) ==
    LET keys == (IF neg > 0 THEN {"negative_values"} ELSE {})
                \cup (IF below > 0 THEN {"below_min"} ELSE {})
                \cup (IF above > 0 THEN {"above_max"} ELSE {})
    IN [k \in keys |-> CASE k = "negative_values" -> neg
                         [] k = "below_min" -> below
                         [] OTHER -> above]

TargetViolations(frame, rules) ==
    Violations(
        IF ~rules.target.allow_negative THEN CountBelow(frame, TargetCol, 0) ELSE 0,
        IF rules.target.min_value # NoKey
            THEN CountBelow(frame, TargetCol, rules.target.min_value[1]) ELSE 0,
        IF rules.target.max_value # NoKey
            THEN CountAbove(frame, TargetCol, rules.target.max_value[1]) ELSE 0)

RegressorViolations(frame, rules) ==
    Violations(
        0,
        IF rules.regressors.min_value # NoKey
            THEN CountBelow(frame, RegressorCol, rules.regressors.min_value[1]) ELSE 0,
        IF rules.regressors.max_value # NoKey
            THEN CountAbove(frame, RegressorCol, rules.regressors.max_value[1]) ELSE 0)

EmptyRulesReport == [target |-> <<>>, regressors |-> <<>>]

\* the report section of _apply_business_rules when no comparison raises
RulesReport(frame, columns, rules) ==
    IF ~rules.given THEN EmptyRulesReport
    ELSE [target |-> TargetViolations(frame, rules),
          regressors |->
              IF rules.regressors.listed /\ RegressorCol \in columns
                 /\ RegressorViolations(frame, rules) # <<>>
              THEN [c \in {RegressorCol} |-> RegressorViolations(frame, rules)]
              ELSE <<>>]

\* the exception _apply_business_rules ends with, or "none"
RulesError(frame, columns, rules) ==
    IF ~rules.given THEN "none"
    ELSE IF TargetRulesReadColumn(rules) /\ TargetCol \notin columns THEN "KeyError"
    ELSE IF TargetRulesReadColumn(rules) /\ ~IsNumericDtype(frame, TargetCol)
        THEN "TypeError"
    ELSE IF RegressorRulesReadColumn(rules, columns)
            /\ ~IsNumericDtype(frame, RegressorCol) THEN "TypeError"
    ELSE "none"

\* ------------------------------------------------------------------ validator
\* validate_data runs the five checks in order, then assembles the report
NoDateReport == [is_sorted |-> FALSE, count |-> 0, range |-> <<>>]

\* DataValidator.__init__ on the arguments of the call
ValidatorInit ==
    /\ self_df = df
    /\ flag = TRUE
    /\ pc = "check_data_type"
    /\ raised = "none"
    /\ missing_values_report = <<>>
    /\ date_report = NoDateReport
    /\ business_rules_report = EmptyRulesReport
    /\ report = <<>>

\* an exception leaves validate_data: nothing is returned
Raise(exc) ==
    /\ pc' = "raised"
    /\ raised' = exc
    /\ UNCHANGED <<validator_args, self_df, flag, missing_values_report, date_report,
                   business_rules_report, report>>

\* variant: "self.flag = not <defect>"
Assigned(fl, defect) == ~defect

\* "if <defect>: self.flag = False": the flag after one test of a check
Cleared(fl, defect) == IF defect THEN FALSE ELSE fl

\* the columns the type check reports as non-numeric
NonNumericFeatures(frame, columns) ==
    {c \in columns \ {DateCol} : ~IsNumericDtype(frame, c)}

\* whether _check_data_type clears the flag
DataTypeFails(frame, columns, dtype) ==
    \/ dtype # "datetime64"
    \/ NonNumericFeatures(frame, columns) # {}

CheckDataType ==
    /\ pc = "check_data_type"
    /\ IF DateCol \notin cols
       THEN Raise("KeyError")
       ELSE /\ flag' = Cleared(flag, DataTypeFails(self_df, cols, date_dtype))
            /\ pc' = "check_missing_values"
            /\ UNCHANGED <<validator_args, self_df, raised, missing_values_report,
                           date_report, business_rules_report, report>>

\* the per-column null counts of _check_missing_values
MissingValuesReport(frame, columns, training) ==
    LET df_cp == IF training THEN DropNaTarget(frame) ELSE frame
    IN [c \in columns |-> NullCount(df_cp, c)]

\* whether _check_missing_values clears the flag
MissingValuesFail(rep) == \E c \in DOMAIN rep : rep[c] # 0

CheckMissingValues ==
    /\ pc = "check_missing_values"
    /\ IF is_training_data /\ TargetCol \notin cols
       THEN Raise("KeyError")
       ELSE /\ missing_values_report' =
                   MissingValuesReport(self_df, cols, is_training_data)
            /\ flag' = Cleared(flag, MissingValuesFail(missing_values_report'))
            /\ pc' = "check_duplicated_rows"
            /\ UNCHANGED <<validator_args, self_df, raised, date_report,
                           business_rules_report, report>>

\* whether _check_duplicated_rows clears the flag
DuplicatedRowsFail(frame) == DuplicatedCount(frame) # 0

CheckDuplicatedRows ==
    /\ pc = "check_duplicated_rows"
    /\ flag' = Cleared(flag, DuplicatedRowsFail(self_df))
    /\ pc' = "check_date_continuity_and_order"
    /\ UNCHANGED <<validator_args, self_df, raised, missing_values_report, date_report,
                   business_rules_report, report>>

\* str(ts.date()): the printed calendar date, without the time of day
DateStr(ts) == <<"date", ts.day>>

\* variant: the range ends at its first date
MissingRangeFirstOnly(missing) ==
    IF missing = {} THEN <<>>
    ELSE <<DateStr(CHOOSE m \in missing : \A n \in missing : DateLE(m, n)),
           "to",
           DateStr(CHOOSE m \in missing : \A n \in missing : DateLE(m, n))>>

\* "<min> to <max>" of the missing dates, None (<<>>) when there is none
MissingRange(missing) ==
    IF missing = {} THEN <<>>
    ELSE <<DateStr(CHOOSE m \in missing : \A n \in missing : DateLE(m, n)),
           "to",
           DateStr(CHOOSE m \in missing : \A n \in missing : DateLE(n, m))>>

\* the frame _check_date_continuity_and_order leaves in self.df
SortedNormalized(frame) == NormalizeDates(SortValues(frame))

\* variant: sort_values(inplace=True) and the dates normalised in the same object
CallerFrameInPlace(frame, working) == working

\* the caller's frame after "self.df = self.df.sort_values(...)": sort_values
\* returns a new frame and the name self.df is bound to it, so the dates are
\* normalised in that new frame and the caller's object is as it was
CallerFrame(frame, working) == frame

\* variant: the gaps are looked for only while the flag is still True
DateReportIfValid(frame) ==
    [is_sorted |-> IsMonotonicIncreasing(frame),
     count |-> IF flag THEN Cardinality(MissingDates(frame)) ELSE 0,
     range |-> IF flag THEN MissingRange(MissingDates(frame)) ELSE <<>>]

\* the sub-report of the date check on the sorted, normalised frame
DateReport(frame) ==
    [is_sorted |-> IsMonotonicIncreasing(frame),
     count |-> Cardinality(MissingDates(frame)),
     range |-> MissingRange(MissingDates(frame))]

\* whether the order test of _check_date_continuity_and_order clears the flag
OrderFails(frame) == ~IsMonotonicIncreasing(frame)

CheckDateContinuityAndOrder ==
    /\ pc = "check_date_continuity_and_order"
    /\ IF DateMin(self_df) = NaT
       THEN \* min() and max() are NaT: pd.date_range raises
            /\ pc' = "raised"
            /\ raised' = "ValueError"
            /\ self_df' = SortedNormalized(self_df)
            /\ df' = CallerFrame(df, self_df')
            /\ flag' = Cleared(flag, OrderFails(self_df))
            /\ UNCHANGED <<validator_config, missing_values_report, date_report,
                           business_rules_report, report>>
       ELSE /\ self_df' = SortedNormalized(self_df)
            /\ df' = CallerFrame(df, self_df')
            /\ date_report' = DateReport(self_df')
            /\ flag' = Cleared(Cleared(flag, OrderFails(self_df)),
                                date_report'.count # 0)
            /\ pc' = "apply_business_rules"
            /\ UNCHANGED <<validator_config, raised, missing_values_report,
                           business_rules_report, report>>

\* variant: a violated rule clears the flag
ApplyBusinessRulesFatal ==
    /\ pc = "apply_business_rules"
    /\ IF RulesError(self_df, cols, business_rules) # "none"
       THEN Raise(RulesError(self_df, cols, business_rules))
       ELSE /\ business_rules_report' = RulesReport(self_df, cols, business_rules)
            /\ flag' = Cleared(flag, business_rules_report' # EmptyRulesReport)
            /\ pc' = "build_report"
            /\ UNCHANGED <<validator_args, self_df, raised, missing_values_report,
                           date_report, report>>

ApplyBusinessRules ==
    /\ pc = "apply_business_rules"
    /\ IF RulesError(self_df, cols, business_rules) # "none"
       THEN Raise(RulesError(self_df, cols, business_rules))
       ELSE /\ business_rules_report' = RulesReport(self_df, cols, business_rules)
            /\ pc' = "build_report"
            /\ UNCHANGED <<validator_args, self_df, flag, raised, missing_values_report,
                           date_report, report>>

\* str(self.df[col].dtype) when validate_data assembles the report
DataTypes(frame, columns) ==
    [c \in columns |-> IF c = DateCol THEN "datetime64"
                       ELSE IF IsNumericDtype(frame, c) THEN "float64" ELSE "object"]

\* the dict validate_data returns beside the flag (its "date" stamp left out)
BuildReport(frame, columns, missing, dates, rules) ==
    [data_types |-> DataTypes(frame, columns),
     missing_values |-> missing,
     duplicated_rows |-> DuplicatedCount(frame),
     date_report |-> dates,
     business_rules |-> rules]

ValidateReturn ==
    /\ pc = "build_report"
    /\ report' = BuildReport(self_df, cols, missing_values_report, date_report,
                             business_rules_report)
    /\ pc' = "returned"
    /\ UNCHANGED <<validator_args, self_df, flag, raised, missing_values_report,
                   date_report, business_rules_report>>

\* ------------------------------------------------------------------ a second validation
VARIABLES
    first           \* what the first validate_data on the caller's frame returned

\* the rules of a second validation: the same, but for the min_value bounds
WithMinValues(rules, tmin, rmin) ==
    [rules EXCEPT !.target.min_value = tmin, !.regressors.min_value = rmin]

MinValueKeys == {NoKey, Key(0), Key(1)}

\* a new DataValidator on the frame the caller still holds, after the first one
\* returned, and the start of its validate_data
ValidateAgain(tmin, rmin) ==
    /\ pc = "returned"
    /\ first.status = "none"
    /\ first' = [status |-> "returned", flag |-> flag, report |-> report,
                 business_rules |-> business_rules]
    /\ business_rules' =
            IF business_rules.given
            THEN WithMinValues(business_rules, tmin,
                               IF business_rules.regressors.listed THEN rmin ELSE NoKey)
            ELSE business_rules
    /\ self_df' = df
    /\ flag' = TRUE
    /\ pc' = "check_data_type"
    /\ raised' = "none"
    /\ missing_values_report' = <<>>
    /\ date_report' = NoDateReport
    /\ business_rules_report' = EmptyRulesReport
    /\ report' = <<>>
    /\ UNCHANGED <<df, cols, date_dtype, is_training_data, regressors_list>>

\* ------------------------------------------------------------------ retrain flag
\* Metric values are kept in hundredths: 96 stands for 0.96.
Threshold == 95

MetricKeys == {"mae_window", "mase_window"}
MetricValues == {NaN} \cup {Num(v) : v \in {Threshold - 1, Threshold, Threshold + 1}}

\* the metrics dicts handed to update_retrain_flag: any subset of the keys, the
\* MAE a number on one side of the threshold or the other
MetricsMaps ==
    {m \in UNION {[ks -> MetricValues] : ks \in SUBSET MetricKeys} :
        "mae_window" \in DOMAIN m
        => m["mae_window"] \in {Num(Threshold - 1), Num(Threshold + 1)}}

VARIABLES
    local_flag,     \* the flag file under output_flag_folder
    hf_flag,        \* monitoring/retrain_flag/retrain_flag.json of the HF dataset
    clock,          \* datetime.utcnow(), counted in calls
    urf,            \* the last call of update_retrain_flag and how it ended
    lrf             \* the last call of load_retrain_flag and how it ended

retrain_vars == <<local_flag, hf_flag, clock, urf, lrf>>

MaxCalls == 2      \* calls of update_retrain_flag in one behaviour

NoFile == [state |-> "absent"]
\* the JSON document update_retrain_flag dumps
FlagRecord(date, decision) ==
    [state |-> "record", date |-> date, should_retrain |-> decision]
\* open(path, "w") emptied the file and the dump did not complete
TruncatedFile == [state |-> "truncated"]

\* variant: open(flag_path, "a"), the new record is added after the old content
WriteFlagAppend(file, date, decision) ==
    IF file.state = "absent" THEN FlagRecord(date, decision)
    ELSE [state |-> "concatenated"]

\* open(flag_path, "w") and json.dump: the file holds the new record alone,
\* whatever it held before
WriteFlag(file, date, decision) == FlagRecord(date, decision)

\* what the remote file can hold
HfFlagContents ==
    {[kind |-> "absent"], [kind |-> "not_json"], [kind |-> "not_dict"],
     [kind |-> "no_key"]}
    \cup {[kind |-> "record", should_retrain |-> b] : b \in BOOLEAN}

\* variant: metric_value >= 0.95
AtOrAboveThreshold(value) == value.k = "num" /\ value.v >= Threshold

\* metric_value > 0.95: strict, and False for NaN
AboveThreshold(value) == value.k = "num" /\ value.v > Threshold

\* outcomes of the file operations of the persist block
WriteOutcomes == {"ok", "open_fails", "dump_fails"}

NoCall == [status |-> "none"]

\* variant: metrics.get(metric_key, 1.0), a missing key decides to retrain
RetrainDecisionDefault(metrics, metric_key) ==
    IF metric_key \notin DOMAIN metrics
    THEN [ok |-> TRUE, should_retrain |-> TRUE]
    ELSE [ok |-> TRUE, should_retrain |-> AboveThreshold(metrics[metric_key])]

\* the "compute retrain decision" block: the decision, or the exception raised
\* when metric_key is no key of metrics (KeyError, re-raised as ValueError)
RetrainDecision(metrics, metric_key) ==
    IF metric_key \notin DOMAIN metrics
    THEN [ok |-> FALSE, error |-> "ValueError"]
    ELSE [ok |-> TRUE, should_retrain |-> AboveThreshold(metrics[metric_key])]

\* update_retrain_flag(output_flag_file, output_flag_folder, metrics, metric_key)
\* under_base: whether output_flag_folder lies under BASE_DIR
UpdateRetrainFlag(metrics, metric_key, under_base, io) ==
    /\ pc = "idle"
    /\ clock < MaxCalls
    /\ clock' = clock + 1
    /\ LET call == [metrics |-> metrics, metric_key |-> metric_key,
                    under_base |-> under_base, io |-> io, before |-> local_flag]
           Raised(exc) == call @@ [status |-> "raised", error |-> exc]
           decision == RetrainDecision(metrics, metric_key)
       IN IF ~decision.ok
          THEN \* raised before anything is written
               /\ urf' = Raised(decision.error)
               /\ local_flag' = local_flag
          ELSE LET should_retrain == decision.should_retrain
               IN CASE io = "open_fails" ->
                         /\ urf' = Raised("OSError")
                         /\ local_flag' = local_flag
                    [] io = "dump_fails" ->
                         /\ urf' = Raised("OSError")
                         /\ local_flag' = TruncatedFile
                    [] io = "ok" /\ ~under_base ->
                         \* the file is written, then relative_to(BASE_DIR) raises
                         /\ urf' = Raised("ValueError")
                         /\ local_flag' = WriteFlag(local_flag, clock', should_retrain)
                    [] OTHER ->
                         /\ urf' = call @@ [status |-> "returned",
                                            value |-> should_retrain]
                         /\ local_flag' = WriteFlag(local_flag, clock', should_retrain)
    /\ UNCHANGED <<validator_vars, hf_flag, lrf>>

\* outcomes of hf_hub_download
DownloadOutcomes == {"ok", "transport_error"}

Returned(value) == [status |-> "returned", value |-> value]

\* variant: the second try block catches nothing
LoadOutcomeUncaught(remote, download, readable) ==
    IF download # "ok" THEN Returned(TRUE)
    ELSE IF remote.kind = "absent" THEN Returned(TRUE)
    ELSE IF ~readable THEN [status |-> "raised", error |-> "OSError"]
    ELSE IF remote.kind = "not_json" THEN [status |-> "raised", error |-> "JSONDecodeError"]
    ELSE IF remote.kind = "not_dict" THEN [status |-> "raised", error |-> "AttributeError"]
    ELSE IF remote.kind = "no_key" THEN Returned(TRUE)
    ELSE Returned(remote.should_retrain)

\* how load_retrain_flag ends: every exception is caught and answered by True
LoadOutcome(remote, download, readable) ==
    IF download # "ok" THEN Returned(TRUE)               \* except Exception
    ELSE IF remote.kind = "absent" THEN Returned(TRUE)   \* EntryNotFoundError
    ELSE IF ~readable THEN Returned(TRUE)                \* open() fails
    ELSE IF remote.kind = "not_json" THEN Returned(TRUE) \* json.load fails
    ELSE IF remote.kind = "not_dict" THEN Returned(TRUE) \* data.get fails
    ELSE IF remote.kind = "no_key" THEN Returned(TRUE)   \* data.get(key, True)
    ELSE Returned(remote.should_retrain)

\* load_retrain_flag(hf_repo_id, retrain_flag_file_name)
LoadRetrainFlag(download, readable) ==
    /\ pc = "idle"
    /\ lrf' = [download |-> download, readable |-> readable, remote |-> hf_flag,
                at |-> clock]
               @@ LoadOutcome(hf_flag, download, readable)
    /\ UNCHANGED <<validator_vars, local_flag, hf_flag, clock, urf>>

\* outcomes of upload_to_hf_repo: done, HF_TOKEN unset, or the API call fails
UploadOutcomes == {"ok", "no_token", "api_fails"}

\* the remote file after api.upload_folder sent the local flag folder to the
\* folder load_retrain_flag reads: an absent local file leaves the remote one
Uploaded(file, remote) ==
    CASE file.state = "record" ->
            [kind |-> "record", should_retrain |-> file.should_retrain]
      [] file.state = "absent" -> remote
      [] OTHER -> [kind |-> "not_json"]

\* the "Upload Retrain Flags" block of update_artifacts.py, a script of its own
\* that no step of the pipeline calls.  The folder it uploads to is
\* RETRAIN_FLAG_DIR relative to ARTIFACTS_DIR; configs/paths_config.py defines no
\* RETRAIN_FLAG_DIR, so whether that is the folder load_retrain_flag reads
\* (monitoring/retrain_flag) is an input.
UploadRetrainFlags(same_folder, outcome) ==
    /\ pc = "idle"
    /\ hf_flag' = IF outcome = "ok" /\ same_folder
                  THEN Uploaded(local_flag, hf_flag) ELSE hf_flag
    /\ UNCHANGED <<validator_vars, local_flag, clock, urf, lrf>>

\* ------------------------------------------------------------------ metrics history
\* MetricHfUpdate (src/updating_artifacts/metrics/updating_metrics.py).  A table
\* is the sequence of its rows.  Each run is a writer with its own machine: its
\* own run-metrics file and its own temp file; the history on HF is shared.
MaxHistory == 2     \* rows of the history before the first update
MaxRunRows == 2     \* rows of a run-metrics file
MaxUpdates == 2     \* calls of update_hf_db by one writer

Writers == {1, 2}

\* a metrics row: who produced it (0: an earlier run) and its place in that file
MetricsRow(w, k) == [run_id |-> <<w, k>>, mase_window |-> Threshold + w]

NoTable == [state |-> "absent"]
Table(rows) == [state |-> "table", rows |-> rows]

\* the rows of a parquet file that exists
Rows(file) == IF file.state = "table" THEN file.rows ELSE <<>>

VARIABLES
    hf_metrics,     \* metrics/<model>/metrics.parquet of the HF dataset
    run_metrics,    \* METRICS_DIR/<model>/metrics.parquet of each writer
    mpc,            \* position of each writer inside update_hf_db
    found,          \* what each writer's _load_hf_metrics_db found on HF
    df_hf,          \* the history each writer loaded
    df_full,        \* the combined table each writer wrote to its temp file
    merr,           \* the exception that ended each writer's call, or "none"
    updates         \* calls of update_hf_db each writer made

metrics_vars == <<hf_metrics, run_metrics, mpc, found, df_hf, df_full, merr, updates>>

\* outcomes of hf_hub_download and pd.read_parquet in _load_hf_metrics_db.
\* "unreachable": the Hub cannot be reached and the file is not in the local
\* cache; hf_hub_download then raises LocalEntryNotFoundError, a subclass of
\* EntryNotFoundError.  "error" is any exception that is no EntryNotFoundError
\* (authentication, a file that is no parquet).
HistoryDownloads == {"ok", "unreachable", "error"}

\* variant: no except clause for EntryNotFoundError
HfMetricsDbStrict(store, download) ==
    IF download # "ok" THEN [ok |-> FALSE, error |-> "RuntimeError"]
    ELSE IF store.state = "absent" THEN [ok |-> FALSE, error |-> "RuntimeError"]
    ELSE [ok |-> TRUE, df |-> store.rows]

\* _load_hf_metrics_db: the stored table, an empty DataFrame when
\* EntryNotFoundError is raised (the file is not in the repository, or the Hub
\* was not reached), RuntimeError for any other failure
HfMetricsDb(store, download) ==
    IF download = "error" THEN [ok |-> FALSE, error |-> "RuntimeError"]
    ELSE IF download = "unreachable" THEN [ok |-> TRUE, df |-> <<>>]
    ELSE IF store.state = "absent" THEN [ok |-> TRUE, df |-> <<>>]
    ELSE [ok |-> TRUE, df |-> store.rows]

\* _load_run_metrics
RunMetrics(file) ==
    IF file.state = "absent" THEN [ok |-> FALSE, error |-> "FileNotFoundError"]
    ELSE [ok |-> TRUE, df |-> file.rows]

\* variant: pd.concat([df_run, df_hf])
ConcatRunFirst(hist, run) == run \o hist

\* pd.concat([df_hf, df_run], ignore_index=True): the rows of the first table,
\* then those of the second, each as it was
Concat(hist, run) == hist \o run

\* a writer's call ends with an exception raised in one of its steps
MetricsRaise(w, exc, step) ==
    /\ mpc' = [mpc EXCEPT ![w] = "raised"]
    /\ merr' = [merr EXCEPT ![w] = [type |-> exc, step |-> step]]

NoError == [type |-> "none", step |-> "none"]

\* MetricHfUpdate(...) and the first half of update_hf_db: the history is loaded
LoadHfMetricsDb(w, token, download) ==
    /\ mpc[w] \in {"idle", "done", "raised"}
    /\ updates[w] < MaxUpdates
    /\ updates' = [updates EXCEPT ![w] = @ + 1]
    /\ IF ~token
       THEN \* __init__ : HF_TOKEN is not set
            /\ MetricsRaise(w, "EnvironmentError", "init")
            /\ found' = [found EXCEPT ![w] = "none"]
            /\ UNCHANGED <<df_hf, df_full>>
       ELSE LET loaded == HfMetricsDb(hf_metrics, download)
            IN /\ found' = [found EXCEPT ![w] =
                                IF download = "ok" THEN hf_metrics.state
                                ELSE IF download = "unreachable" THEN "unreachable"
                                ELSE "none"]
               /\ IF loaded.ok
                  THEN /\ df_hf' = [df_hf EXCEPT ![w] = loaded.df]
                       /\ mpc' = [mpc EXCEPT ![w] = "loaded"]
                       /\ merr' = [merr EXCEPT ![w] = NoError]
                       /\ UNCHANGED df_full
                  ELSE /\ MetricsRaise(w, loaded.error, "load")
                       /\ UNCHANGED <<df_hf, df_full>>
    /\ UNCHANGED <<hf_metrics, run_metrics>>

\* _load_run_metrics, pd.concat and df_full.to_parquet(temp_file)
AppendRunMetrics(w) ==
    /\ mpc[w] = "loaded"
    /\ LET run == RunMetrics(run_metrics[w])
       IN IF run.ok
          THEN /\ df_full' = [df_full EXCEPT ![w] = Concat(df_hf[w], run.df)]
               /\ mpc' = [mpc EXCEPT ![w] = "combined"]
               /\ UNCHANGED merr
          ELSE /\ MetricsRaise(w, run.error, "run")
               /\ UNCHANGED df_full
    /\ UNCHANGED <<hf_metrics, run_metrics, found, df_hf, updates>>

\* api.upload_file: the stored file is replaced by the temp file, or the upload
\* fails and RuntimeError is raised
UploadMetrics(w, uploaded) ==
    /\ mpc[w] = "combined"
    /\ IF uploaded
       THEN /\ hf_metrics' = Table(df_full[w])
            /\ mpc' = [mpc EXCEPT ![w] = "done"]
            /\ UNCHANGED merr
       ELSE /\ MetricsRaise(w, "RuntimeError", "upload")
            /\ UNCHANGED hf_metrics
    /\ UNCHANGED <<run_metrics, found, df_hf, df_full, updates>>

\* ------------------------------------------------------------------ scoring
\* utils/compute_metrics.py.  A series is the sequence of its values; y_true and
\* y_pred carry the same index, so a label is a position.  Metric values are
\* kept in ten-thousandths, the precision round(x, 4) leaves.
MaxSeries == 3      \* longest series scored
MaxValue == 2       \* observed values are 0 .. MaxValue
MaxSeason == 2      \* seasonality is 0 .. MaxSeason

VARIABLES
    y_true,
    y_pred,
    window_size,
    seasonality,
    float_kind,     \* what mean_absolute_error returns: "numpy" or "python" floats
    score           \* how evaluate_rolling_window ended

score_vars == <<y_true, y_pred, window_size, seasonality, float_kind, score>>

Abs(x) == IF x < 0 THEN 0 - x ELSE x

\* the sum of |a[i] - b[i]|
RECURSIVE SumAbsDiff(_, _)
SumAbsDiff(a, b) ==
    IF a = <<>> THEN 0
    ELSE Abs(a[1] - b[1]) + SumAbsDiff(Tail(a), Tail(b))

\* sklearn's mean_absolute_error as a fraction; ValueError when the arrays have
\* different lengths or no sample
MeanAbsoluteError(a, b) ==
    IF Len(a) # Len(b) \/ Len(a) = 0 THEN [ok |-> FALSE, error |-> "ValueError"]
    ELSE [ok |-> TRUE, num |-> SumAbsDiff(a, b), den |-> Len(a)]

\* round(num / den, 4), in ten-thousandths (no fraction of these bounds lies
\* half-way between two of them)
Round4(num, den) == (2 * 10000 * num + den) \div (2 * den)

\* x[:-k]: everything but the last k values; x[:-0] is x[:0], the empty array
DropLast(x, k) == IF k = 0 THEN <<>> ELSE SubSeq(x, 1, Len(x) - k)

\* x[k:]
DropFirst(x, k) == SubSeq(x, k + 1, Len(x))

Inf == [k |-> "inf"]

\* mae_model / mae_naive: numpy floats give nan or inf on a zero divisor (with a
\* warning), Python floats raise ZeroDivisionError
Divide(model, naive, kind) ==
    IF naive.num # 0
    THEN [ok |-> TRUE, value |-> [k |-> "ratio", num |-> model.num * naive.den,
                                  den |-> model.den * naive.num]]
    ELSE IF kind = "python" THEN [ok |-> FALSE, error |-> "ZeroDivisionError"]
    ELSE [ok |-> TRUE, value |-> IF model.num = 0 THEN NaN ELSE Inf]

\* variant: the model's error is taken against y_pred[:-seasonality]
MaseMetricLagged(yt, yp, season, kind) ==
    LET naive == DropLast(yt, season)
        y_true_trimmed == DropFirst(yt, season)
        mae_naive == MeanAbsoluteError(y_true_trimmed, naive)
        mae_model == MeanAbsoluteError(y_true_trimmed, DropLast(yp, season))
    IN IF ~mae_naive.ok THEN mae_naive
       ELSE IF ~mae_model.ok THEN mae_model
       ELSE Divide(mae_model, mae_naive, kind)

\* mase_metric(y_true, y_pred, seasonality)
MaseMetric(yt, yp, season, kind) ==
    LET naive == DropLast(yt, season)
        y_true_trimmed == DropFirst(yt, season)
        mae_naive == MeanAbsoluteError(y_true_trimmed, naive)
        mae_model == MeanAbsoluteError(y_true_trimmed, DropFirst(yp, season))
    IN IF ~mae_naive.ok THEN mae_naive
       ELSE IF ~mae_model.ok THEN mae_model
       ELSE Divide(mae_model, mae_naive, kind)

\* first position of y_true.iloc[-window_size:]; iloc[-0:] is the whole series
WindowStart(n, w) == IF w = 0 \/ w >= n THEN 1 ELSE n - w + 1

\* round(mase_val, 4): nan and inf stay what they are
RoundMase(value) ==
    IF value.k = "ratio" THEN Num(Round4(value.num, value.den)) ELSE value

\* variant: mase_metric is handed the whole series
EvaluateRollingWindowWholeSeries(yt, yp, w, season, kind) ==
    LET start == WindowStart(Len(yt), w)
        y_true_w == SubSeq(yt, start, Len(yt))
        y_pred_w == SubSeq(yp, start, Len(yt))
        mae_val == MeanAbsoluteError(y_true_w, y_pred_w)
        mase_val == MaseMetric(yt, yp, season, kind)
    IN IF Len(yp) < Len(yt) THEN [status |-> "raised", error |-> "KeyError"]
       ELSE IF ~mae_val.ok THEN [status |-> "raised", error |-> mae_val.error]
       ELSE IF ~mase_val.ok THEN [status |-> "raised", error |-> mase_val.error]
       ELSE [status |-> "returned",
             window_size |-> w,
             baseline |-> <<"naive", season, "days">>,
             mae_window |-> Round4(mae_val.num, mae_val.den),
             mase_window |-> RoundMase(mase_val.value)]

\* evaluate_rolling_window(y_true, y_pred, window_size, seasonality)
EvaluateRollingWindow(yt, yp, w, season, kind) ==
    LET start == WindowStart(Len(yt), w)
        y_true_w == SubSeq(yt, start, Len(yt))
        \* y_pred.loc[y_true_w.index]: KeyError when a label is not in y_pred
        y_pred_w == SubSeq(yp, start, Len(yt))
        mae_val == MeanAbsoluteError(y_true_w, y_pred_w)
        mase_val == MaseMetric(y_true_w, y_pred_w, season, kind)
    IN IF Len(yp) < Len(yt) THEN [status |-> "raised", error |-> "KeyError"]
       ELSE IF ~mae_val.ok THEN [status |-> "raised", error |-> mae_val.error]
       ELSE IF ~mase_val.ok THEN [status |-> "raised", error |-> mase_val.error]
       ELSE [status |-> "returned",
             window_size |-> w,
             baseline |-> <<"naive", season, "days">>,
             mae_window |-> Round4(mae_val.num, mae_val.den),
             mase_window |-> RoundMase(mase_val.value)]

\* one call of evaluate_rolling_window on the series at hand
Evaluate ==
    /\ score.status = "none"
    /\ score' = EvaluateRollingWindow(y_true, y_pred, window_size, seasonality,
                                      float_kind)
    /\ UNCHANGED <<y_true, y_pred, window_size, seasonality, float_kind>>

\* the series scored: observed values, and predictions that are right or one too
\* high at each position
ObservedSeries(n) == [1 .. n -> 0 .. MaxValue]

PredictionsOf(yt) ==
    {yp \in [1 .. Len(yt) -> 0 .. MaxValue + 1] :
        \A i \in 1 .. Len(yt) : yp[i] \in {yt[i], yt[i] + 1}}

\* ------------------------------------------------------------------ pipeline
\* pipeline() of tests/test_pipeline.py: the steps run one after the other in one
\* process, no step is wrapped in a try, so an exception a step raises ends the
\* process.  forecast() is also a function of its own; a process runs either.
VARIABLES
    env,            \* what the run finds: configuration, data, remote stores
    stage,          \* the step about to run, "done", "crashed", or "idle"
    retrain_flag,   \* what load_flag returned
    run_result,     \* what evaluate returned (the name metrics in pipeline())
    local_model,    \* MODELS_DIR/prophet/best_model.pkl exists
    validations,    \* the flags validate_data returned in this run, by step
    reports,        \* the steps that saved their data-quality report
    produced,       \* what the run wrote or computed
    appended,       \* the file whose rows the run appended to the history
    loaded,         \* where each step that loaded a model took it from
    perror          \* the exception that ended the process, or "none"

pipeline_vars ==
    <<env, stage, retrain_flag, run_result, local_model, validations, reports, produced,
      appended, loaded, perror>>

\* the value a step that has not run has left
NoValue == [kind |-> "none"]
\* (flag, report) as evaluate and forecast return it on rejected data
FlagAndReport(f) == [kind |-> "tuple", flag |-> f]
\* the dict of evaluate_rolling_window
MetricsDict(m) == [kind |-> "dict", map |-> m]

\* how a step ends: the exception it raises ("none": it returns), what it
\* returns, the flag its validation returned, what it wrote
StepResult(exc, value, checked, wrote) ==
    [raised |-> exc, value |-> value, checked |-> checked, wrote |-> wrote]

\* the environments of a run
Environments ==
    [flag_dir_defined : BOOLEAN,    \* paths_config defines RETRAIN_FLAG_DIR
     under_base : BOOLEAN,          \* the configured folders lie under BASE_DIR
     ingest_ok : BOOLEAN,           \* fetch, process and merge succeed
     train_valid : BOOLEAN,         \* validate_data's flag, is_training_data=True
     forecast_valid : BOOLEAN,      \* validate_data's flag, is_training_data=False
     hf : {"ok", "error"},          \* downloads from and uploads to HF work
     token : BOOLEAN,               \* HF_TOKEN is set
     remote_flag : {[kind |-> "absent"]}
                   \cup {[kind |-> "record", should_retrain |-> b] : b \in BOOLEAN},
     model_on_hf : BOOLEAN,         \* prophet/best_model.pkl is in the model repo
     run_file : BOOLEAN,            \* METRICS_DIR/prophet/metrics.parquet exists
     entry : {"pipeline", "forecast"}]

\* ModelTrainer.train_and_tune: the report is saved (and its log line raises
\* ValueError when DATA_QUALITY_DIR is not under BASE_DIR), a false flag raises
\* ValueError, otherwise the tuned model is saved
TrainAndTune(e) ==
    IF ~e.under_base THEN StepResult("ValueError", NoValue, e.train_valid, {"report"})
    ELSE IF ~e.train_valid THEN StepResult("ValueError", NoValue, FALSE, {"report"})
    ELSE StepResult("none", NoValue, TRUE, {"report", "model"})

\* ModelRunner._load_model: HF first, the local file next; both log lines of the
\* fallback format local_model_path.relative_to(BASE_DIR)
LoadModel(e, local) ==
    IF e.hf = "ok" /\ e.model_on_hf THEN "none"
    ELSE IF ~e.under_base THEN "ValueError"
    ELSE IF local THEN "none"
    ELSE "FileNotFoundError"

\* ModelRunner._load_model: the copy that is deserialized, the one of the HF
\* model repo whenever its download succeeds, the local file only otherwise
ModelOrigin(e, local) ==
    IF e.hf = "ok" /\ e.model_on_hf THEN "hf"
    ELSE IF e.under_base /\ local THEN "local"
    ELSE "none"

\* a step result of a step that got as far as loading the model
WithModel(result, e, local) == result @@ [loaded_from |-> ModelOrigin(e, local)]

\* ModelRunner.evaluate: (flag, report) on a false flag; otherwise the report is
\* saved, the model loaded, the metrics computed, and save_metrics is called
\* without its required model_version, which raises TypeError
RunnerEvaluate(e, local) ==
    IF ~e.train_valid THEN StepResult("none", FlagAndReport(FALSE), FALSE, {})
    ELSE IF ~e.under_base THEN StepResult("ValueError", NoValue, TRUE, {"report"})
    ELSE IF LoadModel(e, local) # "none"
    THEN WithModel(StepResult(LoadModel(e, local), NoValue, TRUE, {"report"}), e, local)
    ELSE WithModel(StepResult("TypeError", NoValue, TRUE, {"report", "metrics"}), e, local)

\* ModelRunner.forecast: (flag, report) on a false flag; otherwise the model is
\* loaded, the forecast saved, and the log line formats
\* forecast_path.relative_to(BASE_DIR)
RunnerForecast(e, local) ==
    IF ~e.forecast_valid THEN StepResult("none", FlagAndReport(FALSE), FALSE, {})
    ELSE IF LoadModel(e, local) # "none"
    THEN WithModel(StepResult(LoadModel(e, local), NoValue, TRUE, {}), e, local)
    ELSE IF ~e.under_base
    THEN WithModel(StepResult("ValueError", NoValue, TRUE, {"forecast"}), e, local)
    ELSE WithModel(StepResult("none", [kind |-> "frame"], TRUE, {"forecast"}), e, local)

\* MetricHfUpdate(...).update_hf_db() as pipeline() calls it: the exception it
\* raises, or "none"
UpdateHfDb(e) ==
    IF ~e.token THEN "EnvironmentError"
    ELSE IF ~HfMetricsDb(NoTable, e.hf).ok THEN HfMetricsDb(NoTable, e.hf).error
    ELSE IF ~RunMetrics(IF e.run_file THEN Table(<<>>) ELSE NoTable).ok
    THEN RunMetrics(NoTable).error
    ELSE IF e.hf # "ok" THEN "RuntimeError"
    ELSE "none"

\* update_flag(metrics): metrics["mase_window"] on the tuple evaluate returned on
\* rejected data raises TypeError, which the compute block logs and re-raises
UpdateFlag(e, value) ==
    IF value.kind # "dict" THEN "TypeError"
    ELSE IF ~RetrainDecision(value.map, "mase_window").ok
    THEN RetrainDecision(value.map, "mase_window").error
    ELSE IF ~e.under_base THEN "ValueError"
    ELSE "none"

\* the files of METRICS_DIR/prophet: metrics.parquet when something other than
\* this run left it there (no step writes it), and the JSON file save_metrics
\* names after the run's timestamp and id
MetricsFolder(e, made) ==
    (IF e.run_file THEN {[name |-> "metrics.parquet", run |-> "earlier"]} ELSE {})
    \cup (IF "metrics_file" \in made
          THEN {[name |-> "timestamp_run_id.json", run |-> "this"]} ELSE {})

\* _load_run_metrics: the file whose rows are appended to the history
RunMetricsFile(folder) == {f \in folder : f.name = "metrics.parquet"}

\* the process ends with an unhandled exception
Crash(exc) ==
    /\ stage' = "crashed"
    /\ perror' = exc

\* a step ran: what it validated and wrote is recorded; it raised, or the run
\* goes on with the next step
Ran(step, result, next) ==
    /\ validations' = validations \cup {<<step, result.checked>>}
    /\ reports' = IF "report" \in result.wrote THEN reports \cup {step} ELSE reports
    /\ produced' = produced \cup result.wrote
    /\ loaded' = IF "loaded_from" \in DOMAIN result
                 THEN loaded \cup {<<step, result.loaded_from>>} ELSE loaded
    /\ IF result.raised # "none"
       THEN Crash(result.raised)
       ELSE stage' = next /\ UNCHANGED perror

\* the module is imported: from configs.paths_config import RETRAIN_FLAG_DIR
ImportModule ==
    /\ stage = "import"
    /\ IF env.flag_dir_defined
       THEN /\ stage' = IF env.entry = "pipeline" THEN "fetch" ELSE "forecast"
            /\ UNCHANGED perror
       ELSE Crash("ImportError")
    /\ UNCHANGED <<env, retrain_flag, run_result, local_model, validations, reports,
                   produced, appended, loaded>>

\* fetch(), process(), merge()
Ingest ==
    /\ stage = "fetch"
    /\ IF env.ingest_ok
       THEN stage' = "load_flag" /\ UNCHANGED perror
       ELSE Crash("RuntimeError")
    /\ UNCHANGED <<env, retrain_flag, run_result, local_model, validations, reports,
                   produced, appended, loaded>>

\* retrain_flag = load_flag()
LoadFlag ==
    /\ stage = "load_flag"
    /\ retrain_flag' = LoadOutcome(env.remote_flag, env.hf, TRUE).value
    /\ stage' = "train"
    /\ UNCHANGED <<env, run_result, local_model, validations, reports, produced,
                   perror, appended, loaded>>

\* if retrain_flag: train()
Train ==
    /\ stage = "train"
    /\ retrain_flag = TRUE
    /\ LET result == TrainAndTune(env)
       IN /\ Ran("train", result, "evaluate")
          /\ local_model' = (local_model \/ "model" \in result.wrote)
    /\ UNCHANGED <<env, retrain_flag, run_result, appended>>

\* else: the train step is skipped
SkipTrain ==
    /\ stage = "train"
    /\ retrain_flag = FALSE
    /\ stage' = "evaluate"
    /\ UNCHANGED <<env, retrain_flag, run_result, local_model, validations, reports,
                   produced, perror, appended, loaded>>

\* metrics = evaluate()
EvaluateModel ==
    /\ stage = "evaluate"
    /\ LET result == RunnerEvaluate(env, local_model)
       IN /\ Ran("evaluate", result, "updatehfmetrics")
          /\ run_result' = result.value
    /\ UNCHANGED <<env, retrain_flag, local_model, appended>>

\* updatehfmetrics()
UpdateHfMetrics ==
    /\ stage = "updatehfmetrics"
    /\ IF UpdateHfDb(env) # "none"
       THEN Crash(UpdateHfDb(env)) /\ UNCHANGED appended
       ELSE /\ stage' = "update_flag"
            /\ appended' = RunMetricsFile(MetricsFolder(env, produced))
            /\ UNCHANGED perror
    /\ UNCHANGED <<env, retrain_flag, run_result, local_model, validations, reports,
                   produced, loaded>>

\* update_flag(metrics=metrics)
UpdateFlagStep ==
    /\ stage = "update_flag"
    /\ IF UpdateFlag(env, run_result) # "none"
       THEN Crash(UpdateFlag(env, run_result))
       ELSE stage' = "forecast" /\ UNCHANGED perror
    /\ UNCHANGED <<env, retrain_flag, run_result, local_model, validations, reports,
                   produced, appended, loaded>>

\* forecast()
Forecast ==
    /\ stage = "forecast"
    /\ Ran("forecast", RunnerForecast(env, local_model), "done")
    /\ UNCHANGED <<env, retrain_flag, run_result, local_model, appended>>

\* ------------------------------------------------------------------ inputs
\* every frame of at most MaxRows rows over a set of rows
FramesOf(rows) == UNION {[1 .. n -> rows] : n \in 0 .. MaxRows}

\* Integrity inputs: any dates (time of day, repeats, gaps, disorder, NaT), null
\* or numeric values, all columns present and declared, no rules.
IntegrityRows ==
    {Row(d, y, x) : d \in Timestamps \cup {NaT},
                    y \in {NaN, Num(0 - 1), Num(1)},
                    x \in {NaN, Num(1)}}

IntegrityInputs ==
    /\ df \in FramesOf(IntegrityRows)
    /\ cols = AllCols
    /\ date_dtype = "datetime64"
    /\ is_training_data \in BOOLEAN
    /\ regressors_list = <<RegressorCol>>
    /\ business_rules = NoRules

\* Schema inputs: two clean consecutive days; any column may be absent, hold
\* strings, or be left undeclared; the date column may hold date strings.
SchemaCells == {Num(1), Str}

SchemaFrames(columns) ==
    {<<Row(IF DateCol \in columns THEN Ts(0, 0) ELSE NaT,
           IF TargetCol \in columns THEN y1 ELSE NaN,
           IF RegressorCol \in columns THEN x1 ELSE NaN),
       Row(IF DateCol \in columns THEN Ts(1, 0) ELSE NaT,
           IF TargetCol \in columns THEN y2 ELSE NaN,
           IF RegressorCol \in columns THEN x2 ELSE NaN)>> :
        y1 \in SchemaCells, y2 \in SchemaCells,
        x1 \in SchemaCells, x2 \in SchemaCells}

SchemaRules ==
    {NoRules,
     Rules(FALSE, NoKey, NoKey, FALSE, NoKey, NoKey),
     Rules(TRUE, NoKey, NoKey, TRUE, Key(0), NoKey)}

SchemaInputs ==
    /\ cols \in SUBSET AllCols
    /\ df \in SchemaFrames(cols)
    /\ date_dtype \in {"datetime64", "object"}
    /\ is_training_data \in BOOLEAN
    /\ regressors_list \in {<<>>, <<RegressorCol>>}
    /\ business_rules \in SchemaRules

\* Rule inputs: consecutive days from day 0, null or numeric values around the
\* bounds, every combination of rules.
RuleRows(d) ==
    {Row(Ts(d, 0), y, x) : y \in {NaN, Num(0 - 1), Num(0), Num(1)},
                           x \in {NaN, Num(0), Num(1)}}

RuleFrames ==
    UNION {{f \in [1 .. n -> UNION {RuleRows(d) : d \in Days}] :
                \A i \in 1 .. n : f[i].date.day = i - 1} :
           n \in 1 .. MaxRows}

RuleSets ==
    {NoRules}
    \cup {Rules(neg, tmin, tmax, FALSE, NoKey, NoKey) :
            neg \in BOOLEAN, tmin \in {NoKey, Key(0), Key(1)}, tmax \in {NoKey, Key(0)}}
    \cup {Rules(neg, tmin, NoKey, TRUE, rmin, rmax) :
            neg \in BOOLEAN, tmin \in {NoKey, Key(0)},
            rmin \in {NoKey, Key(0), Key(1)}, rmax \in {NoKey, Key(0)}}

RuleInputs ==
    /\ df \in RuleFrames
    /\ cols = AllCols
    /\ date_dtype = "datetime64"
    /\ is_training_data \in BOOLEAN
    /\ regressors_list = <<RegressorCol>>
    /\ business_rules \in RuleSets

\* ------------------------------------------------------------------ specifications
vars ==
    <<validator_vars, first, retrain_vars, metrics_vars, score_vars, pipeline_vars>>

\* no pipeline process
PipelineIdle ==
    /\ env = NoValue
    /\ stage = "idle"
    /\ retrain_flag = NoValue
    /\ run_result = NoValue
    /\ local_model = FALSE
    /\ validations = {}
    /\ reports = {}
    /\ produced = {}
    /\ appended = {}
    /\ loaded = {}
    /\ perror = "none"

\* nothing is being scored
ScoreIdle ==
    /\ y_true = <<>>
    /\ y_pred = <<>>
    /\ window_size = 0
    /\ seasonality = 0
    /\ float_kind = "numpy"
    /\ score = NoCall

\* no writer has started, no history is stored
MetricsIdle ==
    /\ hf_metrics = NoTable
    /\ run_metrics = [w \in Writers |-> NoTable]
    /\ mpc = [w \in Writers |-> "idle"]
    /\ found = [w \in Writers |-> "none"]
    /\ df_hf = [w \in Writers |-> <<>>]
    /\ df_full = [w \in Writers |-> <<>>]
    /\ merr = [w \in Writers |-> NoError]
    /\ updates = [w \in Writers |-> 0]

\* no flag function is running or has run
RetrainIdle ==
    /\ local_flag = NoFile
    /\ hf_flag = [kind |-> "absent"]
    /\ clock = 0
    /\ urf = NoCall
    /\ lrf = NoCall

\* no validator exists
ValidatorIdle ==
    /\ df = <<>>
    /\ cols = AllCols
    /\ date_dtype = "datetime64"
    /\ is_training_data = TRUE
    /\ regressors_list = <<>>
    /\ business_rules = NoRules
    /\ self_df = <<>>
    /\ flag = TRUE
    /\ pc = "idle"
    /\ raised = "none"
    /\ missing_values_report = <<>>
    /\ date_report = NoDateReport
    /\ business_rules_report = EmptyRulesReport
    /\ report = <<>>
    /\ first = NoCall

\* a validator constructed on one of the inputs
InitValidate ==
    /\ PipelineIdle
    /\ IntegrityInputs \/ SchemaInputs \/ RuleInputs
    /\ ValidatorInit
    /\ first = NoCall
    /\ RetrainIdle
    /\ MetricsIdle
    /\ ScoreIdle

NextValidate ==
    \/ CheckDataType
    \/ CheckMissingValues
    \/ CheckDuplicatedRows
    \/ CheckDateContinuityAndOrder
    \/ ApplyBusinessRules
    \/ ValidateReturn

\* the validator's steps leave the flag files alone
ValidateStep ==
    NextValidate /\ UNCHANGED <<first, retrain_vars, metrics_vars, score_vars, pipeline_vars>>

SpecValidate == InitValidate /\ [][ValidateStep]_vars

\* one validation, then a second one of the same frame
NextRevalidate ==
    \/ ValidateStep
    \/ /\ \E tmin \in MinValueKeys, rmin \in MinValueKeys : ValidateAgain(tmin, rmin)
       /\ UNCHANGED <<retrain_vars, metrics_vars, score_vars, pipeline_vars>>

SpecRevalidate == InitValidate /\ [][NextRevalidate]_vars

\* the flag files before the first call
InitRetrain ==
    /\ PipelineIdle
    /\ ValidatorIdle
    /\ local_flag \in {NoFile} \cup {FlagRecord(0, b) : b \in BOOLEAN}
    /\ hf_flag \in HfFlagContents
    /\ clock = 0
    /\ urf = NoCall
    /\ lrf = NoCall
    /\ MetricsIdle
    /\ ScoreIdle

NextRetrain ==
    \/ \E metrics \in MetricsMaps, metric_key \in MetricKeys,
          under_base \in BOOLEAN, io \in WriteOutcomes :
            \* the folder matters once the file is written
            /\ io # "ok" => under_base
            /\ UpdateRetrainFlag(metrics, metric_key, under_base, io)
    \/ \E download \in DownloadOutcomes, readable \in BOOLEAN :
            LoadRetrainFlag(download, readable)
    \/ \E same_folder \in BOOLEAN, outcome \in UploadOutcomes :
            UploadRetrainFlags(same_folder, outcome)

\* the flag functions leave the metrics history alone
RetrainStep ==
    NextRetrain /\ UNCHANGED <<first, metrics_vars, score_vars, pipeline_vars>>

SpecRetrain == InitRetrain /\ [][RetrainStep]_vars

\* the history on HF and the run-metrics file of each writer before the first
\* update: the history absent or of at most MaxHistory rows of earlier runs
InitMetrics ==
    /\ PipelineIdle
    /\ ValidatorIdle
    /\ RetrainIdle
    /\ ScoreIdle
    /\ hf_metrics \in {NoTable}
          \cup {Table([k \in 1 .. n |-> MetricsRow(0, k)]) : n \in 0 .. MaxHistory}
    /\ run_metrics \in
          {[w \in Writers |-> IF n[w] < 0 THEN NoTable
                              ELSE Table([k \in 1 .. n[w] |-> MetricsRow(w, k)])] :
                n \in [Writers -> (0 - 1) .. MaxRunRows]}
    /\ mpc = [w \in Writers |-> "idle"]
    /\ found = [w \in Writers |-> "none"]
    /\ df_hf = [w \in Writers |-> <<>>]
    /\ df_full = [w \in Writers |-> <<>>]
    /\ merr = [w \in Writers |-> NoError]
    /\ updates = [w \in Writers |-> 0]

NextMetrics ==
    \/ \E w \in Writers, token \in BOOLEAN, download \in HistoryDownloads :
            LoadHfMetricsDb(w, token, download)
    \/ \E w \in Writers : AppendRunMetrics(w)
    \/ \E w \in Writers, uploaded \in BOOLEAN : UploadMetrics(w, uploaded)

\* the writers leave the validator and the flag files alone
MetricsStep ==
    NextMetrics
    /\ UNCHANGED <<validator_vars, first, retrain_vars, score_vars, pipeline_vars>>

SpecMetrics == InitMetrics /\ [][MetricsStep]_vars

\* a pair of series to score, a window size up to beyond the series, a
\* seasonality, and the kind of float the build computes with
InitScore ==
    /\ PipelineIdle
    /\ ValidatorIdle
    /\ RetrainIdle
    /\ MetricsIdle
    /\ y_true \in UNION {ObservedSeries(n) : n \in 1 .. MaxSeries}
    /\ y_pred \in PredictionsOf(y_true)
    /\ window_size \in 0 .. MaxSeries + 1
    /\ seasonality \in 0 .. MaxSeason
    /\ float_kind \in {"numpy", "python"}
    /\ score = NoCall

ScoreStep ==
    Evaluate
    /\ UNCHANGED <<validator_vars, first, retrain_vars, metrics_vars, pipeline_vars>>

SpecScore == InitScore /\ [][ScoreStep]_vars

\* a process about to start, in any environment, with or without a model file
\* left by an earlier run
InitPipeline ==
    /\ ValidatorIdle
    /\ first = NoCall
    /\ RetrainIdle
    /\ MetricsIdle
    /\ ScoreIdle
    /\ env \in Environments
    /\ stage = "import"
    /\ retrain_flag = NoValue
    /\ run_result = NoValue
    /\ local_model \in BOOLEAN
    /\ validations = {}
    /\ reports = {}
    /\ produced = {}
    /\ appended = {}
    /\ loaded = {}
    /\ perror = "none"

NextPipeline ==
    \/ ImportModule
    \/ Ingest
    \/ LoadFlag
    \/ Train
    \/ SkipTrain
    \/ EvaluateModel
    \/ UpdateHfMetrics
    \/ UpdateFlagStep
    \/ Forecast

PipelineStep ==
    NextPipeline
    /\ UNCHANGED <<validator_vars, first, retrain_vars, metrics_vars, score_vars>>

SpecPipeline == InitPipeline /\ [][PipelineStep]_vars

Init == InitValidate \/ InitRetrain \/ InitMetrics \/ InitScore \/ InitPipeline

Next == NextRevalidate \/ RetrainStep \/ MetricsStep \/ ScoreStep \/ PipelineStep

Spec == Init /\ [][Next]_vars

\* ------------------------------------------------------------------ properties
\* What the claims say about the caller's frame, stated on the input itself.

\* the columns the caller declares: the date, the target, the listed regressors
Declared == {DateCol, TargetCol} \cup {regressors_list[i] : i \in DOMAIN regressors_list}

InputHasNoMissingValue ==
    \A i \in 1 .. Len(df) : \A c \in cols : ~IsNull(df[i][c])

\* rows of the input minus its distinct rows
InputDuplicateRows == Len(df) - Cardinality({df[i] : i \in 1 .. Len(df)})

\* one row per calendar day, each the day after the row before it
InputIsContiguousAscending ==
    /\ \A i \in 1 .. Len(df) : df[i].date.k = "ts"
    /\ \A i \in 1 .. Len(df) - 1 : df[i + 1].date.day = df[i].date.day + 1

\* the calendar days of the input and those missing between its first and last
InputDays == {df[i].date.day : i \in {j \in 1 .. Len(df) : df[j].date.k = "ts"}}

InputMissingDays ==
    {d \in Days : /\ d \notin InputDays
                  /\ \E a \in InputDays : a < d
                  /\ \E b \in InputDays : b > d}

InputHasRepeatedDay ==
    \E i \in 1 .. Len(df) : \E j \in 1 .. Len(df) :
        i # j /\ df[i].date.k = "ts" /\ df[j].date.k = "ts"
        /\ df[i].date.day = df[j].date.day

\* no missing value, no duplicate row, a contiguous ascending daily date column,
\* every declared column present and of the right type
DeclaredClean ==
    /\ Declared \subseteq cols
    /\ date_dtype = "datetime64"
    /\ \A c \in Declared \ {DateCol} : \A i \in 1 .. Len(df) : df[i][c].k # "str"
    /\ InputHasNoMissingValue
    /\ InputDuplicateRows = 0
    /\ InputIsContiguousAscending

ReportCountsAreZero ==
    /\ \A c \in DOMAIN report.missing_values : report.missing_values[c] = 0
    /\ report.duplicated_rows = 0
    /\ report.date_report.count = 0

C2_MissingColumnReported ==
    (Cardinality(Declared \ cols) = 1 /\ pc \in {"returned", "raised"})
    => /\ pc = "returned"
       /\ flag = FALSE
       /\ "missing_columns" \in DOMAIN report

\* C3: when validate_data returns flag True, no calendar day occurs twice in the
\* date column and no day between its first and last is missing.
C3_ValidatedDatesUniqueAndContiguous ==
    (pc = "returned" /\ flag) => (~InputHasRepeatedDay /\ InputMissingDays = {})

\* C4: the flag is True when validation starts, and no step of validate_data
\* sets it back to True once it is False.
C4_FlagOnlyCleared ==
    /\ (pc = "check_data_type" => flag)
    /\ [][(flag = FALSE) => (flag' = FALSE)]_vars

\* a run where the first check cleared the flag and every later check passed
C4_Witness ==
    /\ pc = "returned"
    /\ flag = FALSE
    /\ DataTypeFails(df, cols, date_dtype)
    /\ ReportCountsAreZero
    /\ IsMonotonicIncreasing(df)

\* C5: the business-rule step and the assembly of the report leave the flag as
\* the structural checks set it, whatever the rules and whatever they count.
C5_RulesLeaveFlag ==
    [][(pc \in {"apply_business_rules", "build_report"}) => (flag' = flag)]_vars

\* rules were violated and the flag is still True
C5_Witness ==
    /\ pc = "returned"
    /\ flag
    /\ business_rules.given
    /\ report.business_rules.target # <<>>
    /\ report.business_rules.regressors # <<>>

\* C6: the report's duplicated_rows is the number of duplicate rows of the input,
\* and a reported count above zero goes with flag False.
C6_DuplicatedRowsReported ==
    pc = "returned"
    => /\ report.duplicated_rows = InputDuplicateRows
       /\ report.duplicated_rows > 0 => flag = FALSE

\* the input is daily and contiguous but for exactly one interior day, d
OneInteriorDayRemoved(d) ==
    /\ \A i \in 1 .. Len(df) : df[i].date.k = "ts"
    /\ \A i \in 1 .. Len(df) - 1 : df[i].date.day < df[i + 1].date.day
    /\ InputMissingDays = {d}

\* C7: the report's missing-date count and range are those of the days missing
\* between the first and last day of the input (earliest "to" latest, None when
\* none is missing); with exactly one interior day d removed, the flag is False,
\* the count is 1 and the range is "d to d".
C7_MissingDatesReported ==
    pc = "returned"
    => /\ report.date_report.count = Cardinality(InputMissingDays)
       /\ report.date_report.range =
            IF InputMissingDays = {} THEN <<>>
            ELSE <<DateStr(Ts(CHOOSE a \in InputMissingDays :
                                \A b \in InputMissingDays : a <= b, 0)),
                   "to",
                   DateStr(Ts(CHOOSE a \in InputMissingDays :
                                \A b \in InputMissingDays : a >= b, 0))>>
       /\ \A d \in Days :
            OneInteriorDayRemoved(d)
            => /\ flag = FALSE
               /\ report.date_report.count = 1
               /\ report.date_report.range =
                    <<DateStr(Ts(d, 0)), "to", DateStr(Ts(d, 0))>>

\* day 1 alone is missing between day 0 and day 2
C7_Witness ==
    /\ pc = "returned"
    /\ OneInteriorDayRemoved(1)
    /\ report.date_report.count = 1
    /\ flag = FALSE

\* the last call of update_retrain_flag found its key, and the value is a number
LastMetricIsNumber ==
    /\ urf.status # "none"
    /\ urf.metric_key \in DOMAIN urf.metrics
    /\ urf.metrics[urf.metric_key].k = "num"

\* the flag file holds the record the last call of update_retrain_flag wrote
WrittenByLastCall ==
    /\ urf.status # "none"
    /\ local_flag.state = "record"
    /\ local_flag.date = clock

\* C8: the decision of update_retrain_flag, returned and written, is True when
\* the metric is above 0.95 and False when it is 0.95 or below.
C8_StrictThreshold ==
    LastMetricIsNumber
    => /\ urf.status = "returned"
            => urf.value = (urf.metrics[urf.metric_key].v > Threshold)
       /\ WrittenByLastCall
            => local_flag.should_retrain = (urf.metrics[urf.metric_key].v > Threshold)

\* a metric of exactly 0.95 was decided
C8_Witness ==
    /\ urf.status = "returned"
    /\ urf.metrics[urf.metric_key] = Num(Threshold)
    /\ urf.value = FALSE
    /\ local_flag = FlagRecord(clock, FALSE)

\* C9: a call of update_retrain_flag whose metric_key is no key of metrics raises
\* ValueError, returns no decision and leaves the flag file as it was.
C9_MissingKeyAborts ==
    (urf.status # "none" /\ urf.metric_key \notin DOMAIN urf.metrics)
    => /\ urf.status = "raised"
       /\ urf.error = "ValueError"
       /\ "value" \notin DOMAIN urf
       /\ local_flag = urf.before

\* the key was missing in a call made after a record had been written
C9_Witness ==
    /\ urf.status = "raised"
    /\ urf.metric_key \notin DOMAIN urf.metrics
    /\ clock = 2
    /\ local_flag.state = "record"
    /\ local_flag.date = 1

\* the remote file is missing, cannot be fetched or read, or is no JSON
LoadFailed ==
    \/ lrf.download # "ok"
    \/ lrf.remote.kind \in {"absent", "not_json"}
    \/ ~lrf.readable

\* C10: load_retrain_flag always returns, and returns True when the remote file
\* is missing, cannot be downloaded or read, or does not hold JSON.
C10_LoadDefaultsToTrue ==
    lrf.status # "none"
    => /\ lrf.status = "returned"
       /\ LoadFailed => lrf.value = TRUE

\* a downloaded, readable file that is no JSON
C10_Witness ==
    /\ lrf.status = "returned"
    /\ lrf.download = "ok"
    /\ lrf.readable
    /\ lrf.remote.kind = "not_json"
    /\ lrf.value = TRUE

\* C11: after a call of update_retrain_flag that returned, the flag file holds one
\* record, the one of that call: its should_retrain is the value the call
\* returned, and nothing of what the file held before is left.
C11_FlagOverwritten ==
    urf.status = "returned"
    => /\ local_flag.state = "record"
       /\ local_flag = FlagRecord(clock, urf.value)

\* the second call decided the opposite of the record it found
C11_Witness ==
    /\ urf.status = "returned"
    /\ clock = 2
    /\ urf.before.state = "record"
    /\ urf.before.date = 1
    /\ urf.before.should_retrain # urf.value
    /\ local_flag = FlagRecord(2, urf.value)

\* C12: when nothing fails in the read (the download works and the file opens),
\* load_retrain_flag returns the decision that the last update_retrain_flag
\* before it persisted.  (No update was called since the load when lrf.at is
\* the clock, so the flag file is the one the load found persisted.)
C12_LoadReturnsPersistedDecision ==
    (lrf.status # "none" /\ lrf.at = clock /\ lrf.download = "ok" /\ lrf.readable
        /\ urf.status = "returned" /\ local_flag.state = "record")
    => /\ lrf.status = "returned"
       /\ lrf.value = local_flag.should_retrain

\* writer w uploads in this step
Uploads(w) == mpc[w] = "combined" /\ mpc'[w] = "done"

\* nothing was stored between writer w's load and now: the stored history is
\* still the one w loaded
Sequential(w) == Rows(hf_metrics) = df_hf[w]

C14_BothAppendsKept ==
    (\A w \in Writers : mpc[w] = "done" /\ updates[w] = 1)
    => \A w \in Writers : \A k \in 1 .. Len(Rows(run_metrics[w])) :
            \E i \in 1 .. Len(Rows(hf_metrics)) :
                hf_metrics.rows[i] = run_metrics[w].rows[k]

\* C15: when the history file is not on HF, the load does not fail and gives an
\* empty table, the combined table is the run's rows alone, and that is what the
\* upload stores.
C15_NoHistoryStartsEmpty ==
    /\ [](\A w \in Writers :
            found[w] = "absent"
            => /\ merr[w].step # "load"
               /\ mpc[w] \in {"loaded", "combined", "done"} => df_hf[w] = <<>>
               /\ mpc[w] \in {"combined", "done"} => df_full[w] = run_metrics[w].rows)
    /\ [][\A w \in Writers :
            (Uploads(w) /\ found[w] = "absent")
            => hf_metrics' = Table(run_metrics[w].rows)]_vars

\* the first update ever: no history file, a run of one row, now stored alone
C15_Witness ==
    /\ \E w \in Writers :
            /\ mpc[w] = "done"
            /\ found[w] = "absent"
            /\ hf_metrics = Table(<<MetricsRow(w, 1)>>)
    /\ \E w \in Writers : updates[w] = 0

\* the defect counts of a report
DefectCounts(r) == <<r.missing_values, r.duplicated_rows, r.date_report.count>>

\* C16: no step of validate_data changes the caller's frame (rows, order, values,
\* columns), and a second validation of the frame returns the same flag and the
\* same defect counts as the first.
C16_CallerFrameUntouched ==
    /\ [][df' = df /\ cols' = cols /\ date_dtype' = date_dtype]_vars
    /\ []((pc = "returned" /\ first.status = "returned")
            => /\ flag = first.flag
               /\ DefectCounts(report) = DefectCounts(first.report))

\* an unordered frame with times of day was validated twice: the validator's
\* frame is sorted and normalised, the caller's is not
C16_Witness ==
    /\ pc = "returned"
    /\ first.status = "returned"
    /\ ~IsMonotonicIncreasing(df)
    /\ \E i \in 1 .. Len(df) : df[i].date.k = "ts" /\ df[i].date.tod = 1
    /\ self_df # df
    /\ IsMonotonicIncreasing(self_df)
    /\ flag = FALSE

\* the below_min count of a sparse violations map, 0 when the key is absent
BelowMin(violations) ==
    IF "below_min" \in DOMAIN violations THEN violations["below_min"] ELSE 0

RegressorBelowMin(section) ==
    IF RegressorCol \in DOMAIN section.regressors
    THEN BelowMin(section.regressors[RegressorCol]) ELSE 0

\* both validations had a min_value for the target / for the regressor, the
\* second at least as high as the first
TargetMinRaised ==
    /\ first.business_rules.target.min_value # NoKey
    /\ business_rules.target.min_value # NoKey
    /\ first.business_rules.target.min_value[1] <= business_rules.target.min_value[1]

RegressorMinRaised ==
    /\ first.business_rules.regressors.listed
    /\ first.business_rules.regressors.min_value # NoKey
    /\ business_rules.regressors.min_value # NoKey
    /\ first.business_rules.regressors.min_value[1]
            <= business_rules.regressors.min_value[1]

\* C17: when the same frame is validated under min_value m1 and then under
\* m2 >= m1, the below_min count of the second report is at least that of the
\* first (an absent below_min counting as 0), for the target and the regressor.
C17_BelowMinMonotonic ==
    (pc = "returned" /\ first.status = "returned" /\ business_rules.given)
    => /\ TargetMinRaised
            => BelowMin(first.report.business_rules.target)
                    <= BelowMin(report.business_rules.target)
       /\ RegressorMinRaised
            => RegressorBelowMin(first.report.business_rules)
                    <= RegressorBelowMin(report.business_rules)

\* the bound went from 0 to 1 for both columns and both counts went up from 0
C17_Witness ==
    /\ pc = "returned"
    /\ first.status = "returned"
    /\ business_rules.given
    /\ TargetMinRaised
    /\ RegressorMinRaised
    /\ BelowMin(first.report.business_rules.target) = 0
    /\ BelowMin(report.business_rules.target) > 0
    /\ RegressorBelowMin(first.report.business_rules) = 0
    /\ RegressorBelowMin(report.business_rules) > 0

\* the observations the call scores: the last window_size of them, all of them
\* when there are no more than that
ScoredLength == IF window_size < Len(y_true) THEN window_size ELSE Len(y_true)

Scored(x) == SubSeq(x, Len(x) - ScoredLength + 1, Len(x))

\* the seasonal-naive forecast of a series is wrong somewhere
NaiveErrorNonZero(x, season) ==
    \E i \in season + 1 .. Len(x) : x[i] # x[i - season]

\* a call with predicted == observed, a window of at least one observation and a
\* seasonality of at least one day and smaller than the scored length
PerfectlyPredicted ==
    /\ score.status # "none"
    /\ y_pred = y_true
    /\ window_size >= 1
    /\ seasonality >= 1
    /\ seasonality < ScoredLength

\* C18 as the claim states it: when the seasonal-naive error of the observed
\* series is not zero, a perfectly predicted series scores mae_window = 0 and
\* mase_window = 0.
C18_PerfectScoresZeroOnSeries ==
    (PerfectlyPredicted /\ NaiveErrorNonZero(y_true, seasonality))
    => /\ score.status = "returned"
       /\ score.mae_window = 0
       /\ score.mase_window = Num(0)

\* C18, amended: when the seasonal-naive error of the scored observations (the
\* last window_size of the series) is not zero, a perfectly predicted series
\* scores mae_window = 0 and mase_window = 0.
C18_PerfectScoresZero ==
    (PerfectlyPredicted /\ NaiveErrorNonZero(Scored(y_true), seasonality))
    => /\ score.status = "returned"
       /\ score.mae_window = 0
       /\ score.mase_window = Num(0)

\* a perfect prediction scored on a window shorter than the series
C18_Witness ==
    /\ PerfectlyPredicted
    /\ NaiveErrorNonZero(Scored(y_true), seasonality)
    /\ ScoredLength < Len(y_true)
    /\ seasonality = 1
    /\ score.status = "returned"
    /\ score.mase_window = Num(0)

\* the seasonal-naive MAE of a whole series, as a fraction
NaiveSum(x, season) == SumAbsDiff(DropFirst(x, season), DropLast(x, season))

\* C19 as the claim states it: mase_window is the MAE of the model on the scored
\* observations divided by the seasonal-naive MAE of the whole observed series.
C19_DenominatorOverSeries ==
    (/\ score.status = "returned"
     /\ window_size >= 1
     /\ seasonality >= 1
     /\ seasonality < ScoredLength
     /\ NaiveSum(y_true, seasonality) # 0)
    => score.mase_window =
        Num(Round4(SumAbsDiff(DropFirst(Scored(y_true), seasonality),
                              DropFirst(Scored(y_pred), seasonality))
                        * (Len(y_true) - seasonality),
                   (ScoredLength - seasonality) * NaiveSum(y_true, seasonality)))

\* the inputs of the same length that agree with the scored one on its last
\* window_size observations, predictions included
AgreeOnWindow ==
    LET before == Len(y_true) - ScoredLength
    IN  {<<yt \o Scored(y_true), [i \in 1 .. before |-> yt[i] + d[i]] \o Scored(y_pred)>> :
            <<yt, d>> \in ObservedSeries(before) \X [1 .. before -> {0, 1}]}

\* C19, amended: the denominator of mase_window is the seasonal-naive MAE of the
\* last window_size observations alone: two inputs that agree on their last
\* window_size observations score the same mase_window, whatever they hold
\* before, and so does the window on its own.
C19_DenominatorOverWindow ==
    (score.status # "none" /\ window_size >= 1)
    => /\ \A p \in AgreeOnWindow :
            EvaluateRollingWindow(p[1], p[2], window_size, seasonality, float_kind)
                = score
       /\ EvaluateRollingWindow(Scored(y_true), Scored(y_pred), window_size,
                                seasonality, float_kind) = score

\* the observations before the window have a naive error, those of the window a
\* different one, and the score is a number
C19_Witness ==
    /\ score.status = "returned"
    /\ window_size = 2
    /\ Len(y_true) = 3
    /\ seasonality = 1
    /\ score.mase_window.k = "num"
    /\ score.mase_window.v > 0
    /\ NaiveSum(y_true, 1) # NaiveSum(Scored(y_true), 1) * 2

\* a validation of this run returned flag = false
Rejected == \E v \in validations : v[2] = FALSE

\* the folders are configured under BASE_DIR, HF answers, HF_TOKEN is set and the
\* run-metrics file exists: nothing but the data is wrong
HealthyRun ==
    /\ env # NoValue
    /\ env.entry = "pipeline"
    /\ env.under_base
    /\ env.hf = "ok"
    /\ env.token
    /\ env.run_file

\* C20: in a pipeline run where validation returns flag = false, the process
\* does not end with an unhandled exception, and no model, no metrics and no
\* forecast is produced.
C20_RejectedStopsWithoutCrash ==
    (HealthyRun /\ Rejected)
    => /\ stage # "crashed"
       /\ produced \cap {"model", "metrics", "forecast"} = {}

\* the rows the missing-values check counts in: all of them, or those with a
\* target when training
CountedRows ==
    {i \in 1 .. Len(df) : ~(is_training_data /\ IsNull(df[i].target))}

\* the rows of the input once the time of day is dropped
InputRowsByDay ==
    {[df[i] EXCEPT !.date = NormalizeCell(df[i].date)] : i \in 1 .. Len(df)}

\* C21: a validate_data call that returns has run every check, whether or not an
\* earlier one cleared the flag: each section of the report is what its check
\* finds on the frame, and the flag is cleared exactly when one of the checks
\* that clear it found a defect.
C21_AllChecksRun ==
    pc = "returned" =>
        /\ DOMAIN report.data_types = cols
        /\ DOMAIN report.missing_values = cols
        /\ \A c \in cols :
                report.missing_values[c]
                    = Cardinality({i \in CountedRows : IsNull(df[i][c])})
        /\ report.duplicated_rows = Len(df) - Cardinality(InputRowsByDay)
        /\ report.date_report.count = Cardinality(InputMissingDays)
        /\ report.business_rules = RulesReport(SortedNormalized(df), cols, business_rules)
        /\ flag = ~(\/ DataTypeFails(df, cols, date_dtype)
                    \/ \E c \in cols : report.missing_values[c] # 0
                    \/ InputDuplicateRows # 0
                    \/ OrderFails(df)
                    \/ InputMissingDays # {})

\* the second check cleared the flag and the fourth still reports its gaps
C21_Witness ==
    /\ pc = "returned"
    /\ ~DataTypeFails(df, cols, date_dtype)
    /\ MissingValuesFail(report.missing_values)
    /\ ~DuplicatedRowsFail(df)
    /\ ~OrderFails(df)
    /\ report.date_report.count = 2

\* a null in a column other than the target, in a row the check counts in (when
\* training, the rows with a null target are dropped first)
InputHasNullBesideTarget ==
    \E i \in CountedRows : \E c \in cols \ {TargetCol} : IsNull(df[i][c])

\* C22: in both modes the missing-values check clears the flag exactly when a
\* column other than the target holds a null; a null target alone never does,
\* dropped before the count when training and acceptable when forecasting.
C22_NullTargetAloneAccepted ==
    (pc = "check_duplicated_rows" /\ ~DataTypeFails(df, cols, date_dtype))
    => (flag = ~InputHasNullBesideTarget)

\* C23: a returned report's is_sorted says whether the input date column was
\* monotonically increasing, and an input that was not returns flag false.
C23_IsSortedReportsInputOrder ==
    pc = "returned" =>
        /\ report.date_report.is_sorted = IsMonotonicIncreasing(df)
        /\ ~IsMonotonicIncreasing(df) => ~flag

\* the rows of the input whose value in a column is a number strictly below, or
\* strictly above, a bound
RowsBelow(col, bound) ==
    {i \in 1 .. Len(df) : df[i][col].k = "num" /\ df[i][col].v < bound}

RowsAbove(col, bound) ==
    {i \in 1 .. Len(df) : df[i][col].k = "num" /\ df[i][col].v > bound}

\* what the claim says one column's entry holds: a key for each configured rule
\* that some value breaks strictly, with the number of such values
SparseEntry(negative, below, above) ==
    [k \in {n \in {"negative_values", "below_min", "above_max"} :
                \/ n = "negative_values" /\ negative # {}
                \/ n = "below_min" /\ below # {}
                \/ n = "above_max" /\ above # {}} |->
        Cardinality(CASE k = "negative_values" -> negative
                      [] k = "below_min" -> below
                      [] OTHER -> above)]

ExpectedTargetEntry ==
    SparseEntry(
        IF business_rules.target.allow_negative THEN {} ELSE RowsBelow(TargetCol, 0),
        IF business_rules.target.min_value = NoKey THEN {}
            ELSE RowsBelow(TargetCol, business_rules.target.min_value[1]),
        IF business_rules.target.max_value = NoKey THEN {}
            ELSE RowsAbove(TargetCol, business_rules.target.max_value[1]))

ExpectedRegressorEntry ==
    SparseEntry(
        {},
        IF business_rules.regressors.min_value = NoKey THEN {}
            ELSE RowsBelow(RegressorCol, business_rules.regressors.min_value[1]),
        IF business_rules.regressors.max_value = NoKey THEN {}
            ELSE RowsAbove(RegressorCol, business_rules.regressors.max_value[1]))

\* C24: the business-rule report of a returned call is sparse and strict: a key
\* appears for the target, and a regressor under regressors, exactly when a
\* value is strictly negative, strictly below min_value or strictly above
\* max_value, with the number of such values; a value equal to a bound is not
\* counted.
C24_SparseStrictRulesReport ==
    (pc = "returned" /\ business_rules.given) =>
        /\ report.business_rules.target = ExpectedTargetEntry
        /\ report.business_rules.regressors =
                IF /\ business_rules.regressors.listed
                   /\ RegressorCol \in cols
                   /\ ExpectedRegressorEntry # <<>>
                THEN [c \in {RegressorCol} |-> ExpectedRegressorEntry]
                ELSE <<>>

\* a target of zero beside a negative one, and a regressor equal to its
\* max_value: one negative value for the target, nothing for the regressor
C24_Witness ==
    /\ pc = "returned"
    /\ business_rules.given
    /\ business_rules.regressors.max_value = Key(0)
    /\ \E i \in 1 .. Len(df) : df[i].target = Num(0)
    /\ \E i \in 1 .. Len(df) : df[i].temp = Num(0)
    /\ report.business_rules.target = [k \in {"negative_values"} |-> 1]
    /\ report.business_rules.regressors = <<>>

\* C25: when the seasonal-naive error of the observed series is exactly zero,
\* the scorer returns no undefined mase_window: the call ends with an explicit
\* error, or what it returns is a number.
C25_ZeroNaiveErrorGuarded ==
    (/\ score.status # "none"
     /\ window_size >= 1
     /\ seasonality >= 1
     /\ seasonality < ScoredLength
     /\ ~NaiveErrorNonZero(y_true, seasonality))
    => (score.status = "returned" => score.mase_window.k = "num")

\* C26: every validation a run made, in training, evaluation or forecasting and
\* whatever its flag, was followed by the write of its report to the
\* data-quality report path.
C26_EveryValidationSavesReport ==
    \A v \in validations : v[1] \in reports

\* C27: the rows a pipeline run appended to the metrics history are those of the
\* metrics this run's scoring step computed and saved, and the run scored
\* before it appended.
C27_AppendsOwnMetrics ==
    (env # NoValue /\ stage \in {"update_flag", "forecast", "done"}
        /\ env.entry = "pipeline")
    => /\ "metrics" \in produced
       /\ appended # {}
       /\ \A f \in appended : f.run = "this"

\* C28: a stored history that holds rows is overwritten only by a writer whose
\* load read the stored table or was told that there is none; a load that
\* failed for another reason ends the call before any upload.
C28_UploadOnlyAfterGoodLoad ==
    [][\A w \in Writers :
        (Uploads(w) /\ Rows(hf_metrics) # <<>>)
        => found[w] \in {"table", "absent"}]_vars

\* C29: a call of update_retrain_flag that raises leaves the flag file as it
\* was before the call; the file changes only in calls that return.
C29_RaisedLeavesFlagFile ==
    urf.status = "raised" => local_flag = urf.before

\* C30: in a run whose train step saved a model, every step that loads a model
\* loads that file, not the copy an earlier run left in the HF model repo.
C30_TrainedRunLoadsNewModel ==
    "model" \in produced => \A l \in loaded : l[2] = "local"

====
